---- MODULE Spec2Model ----
\* A model of the infection-spread game of anaymody/rAAwr.  The repository holds
\* the same engine in several program variants; the model keeps them apart:
\*   "CG"  the line-mode contact-graph programs      (src/main.go 1-182, 184-401)
\*   "LL"  the line-mode level-adjacency program      (src/main.go 403-741)
\*   "G1"  the graphical program with dialogs         (src/animals/yellowstone_evolution.go 1-602)
\*   "G2"  the graphical program with the animation   (src/unnamed/part_000,
\*                                                     src/animals/yellowstone_evolution.go 604-1076)
\* Probabilities are kept in hundredths (InfectionRate 50 is 0.5, Strength 100 is
\* 1.0, a draw of 30 is 0.30); elapsed time is kept in milliseconds.
EXTENDS Integers, Sequences, FiniteSets, TLC

VARIABLES
    variant,     \* which program is running
    source,      \* the roster source (the JSON file or the hardcoded table)
    animals,     \* name -> Animal, the roster in memory
    playerName,  \* the current player host, NoName before a starter is chosen
    maxLevel,    \* the apex level computed at load
    currentDay,  \* the day counter (the loop variable of the line-mode programs)
    stats,       \* Stats: Attempts, SameLevelInfections, NextLevelInfections
    screen,      \* what the user faces: kind, the player captured when the
                 \* screen was built, and the hosts that carry an infect button
    pending,     \* delayed callbacks not yet run, oldest first
    timerLive,   \* the number of score-polling goroutines that are running
    scoreText,   \* the score last computed for display: <<>>, or
                 \* <<elapsed ms read from the clock, score>>
    last         \* the last command and how it was resolved

vars == <<variant, source, animals, playerName, maxLevel, currentDay, stats,
          screen, pending, timerLive, scoreText, last>>

\* GameState as the handlers see it (the engine's data, without the display).
gameState == <<animals, playerName, maxLevel, currentDay, stats>>

-----------------------------------------------------------------------------
\* Bounds of the exploration.

\* The day counter of the programs without a small turn ceiling stops here.
MaxDay == 4
\* Attempts stop being made here (a failed attempt can be repeated for ever).
MaxAttempts == 4
\* Delayed callbacks that may be outstanding at once.
MaxPending == 2

\* Program constants.
Strength == 100
CGCeiling == 6
LLCeiling == 999

NoName == ""
Variants == {"CG", "LL", "G1", "G2"}
\* Values of rand.Float64(), in hundredths: always in [0, 1).
Draws == {0, 30, 70, 99}
\* Values of the elapsed wall-clock time, in milliseconds.
Clock == {0, 3999}

-----------------------------------------------------------------------------
\* The data model.

Animal(level, rate, redHerring, infected, contacts) ==
    [Level |-> level, InfectionRate |-> rate, RedHerring |-> redHerring,
     Infected |-> infected, Contacts |-> contacts]

\* The hardcoded roster.
LoadYellowstoneAnimals ==
    ("Grizzly Bear" :> Animal(3, 40, FALSE, FALSE, <<"Wolf", "Tourist", "Bison">>)) @@
    ("Wolf" :> Animal(3, 55, FALSE, FALSE, <<"Elk", "Bison", "Grizzly Bear">>)) @@
    ("Bison" :> Animal(2, 25, FALSE, FALSE, <<"Wolf", "Elk">>)) @@
    ("Elk" :> Animal(2, 30, FALSE, FALSE, <<"Wolf", "Bison">>)) @@
    ("Tourist" :> Animal(1, 75, FALSE, FALSE, <<"Grizzly Bear", "Wolf">>))

\* Roster files the JSON loaders may be given.
FileExample ==
    ("A" :> Animal(1, 100, FALSE, FALSE, <<"B">>)) @@
    ("B" :> Animal(2, 100, FALSE, FALSE, <<"A">>))

FileTwoApex ==
    ("a" :> Animal(1, 50, FALSE, FALSE, <<"b", "c">>)) @@
    ("b" :> Animal(1, 50, FALSE, FALSE, <<"c", "a", "zz">>)) @@
    ("c" :> Animal(2, 50, FALSE, FALSE, <<"d", "a">>)) @@
    ("d" :> Animal(2, 100, FALSE, FALSE, <<>>))

FileRedHerrings ==
    ("a" :> Animal(1, 50, FALSE, FALSE, <<"b", "c", "d">>)) @@
    ("b" :> Animal(1, 100, TRUE, FALSE, <<"a">>)) @@
    ("c" :> Animal(2, 100, TRUE, FALSE, <<"a">>)) @@
    ("d" :> Animal(2, 50, FALSE, FALSE, <<"c", "b", "e">>)) @@
    ("e" :> Animal(3, 100, FALSE, FALSE, <<"d">>))

FileThreeLevels ==
    ("a" :> Animal(1, 100, FALSE, FALSE, <<"b">>)) @@
    ("b" :> Animal(2, 50, FALSE, FALSE, <<"c", "d", "a">>)) @@
    ("c" :> Animal(3, 50, FALSE, FALSE, <<"b">>)) @@
    ("d" :> Animal(3, 0, FALSE, FALSE, <<"b">>))

FileFlat ==
    ("a" :> Animal(1, 50, FALSE, FALSE, <<"b">>)) @@
    ("b" :> Animal(1, 0, FALSE, FALSE, <<"a">>))

FilePreInfected ==
    ("a" :> Animal(1, 50, FALSE, FALSE, <<"b", "c">>)) @@
    ("b" :> Animal(1, 50, FALSE, TRUE, <<"a">>)) @@
    ("c" :> Animal(2, 50, FALSE, FALSE, <<"d">>)) @@
    ("d" :> Animal(2, 50, TRUE, TRUE, <<"a">>))

FileGap ==
    ("a" :> Animal(1, 50, FALSE, FALSE, <<"b">>)) @@
    ("b" :> Animal(3, 50, FALSE, FALSE, <<"a">>))

FileTwoMiddle ==
    ("a" :> Animal(1, 100, FALSE, FALSE, <<"b", "c">>)) @@
    ("b" :> Animal(2, 100, FALSE, FALSE, <<"c", "d">>)) @@
    ("c" :> Animal(2, 100, FALSE, FALSE, <<"b">>)) @@
    ("d" :> Animal(3, 50, FALSE, FALSE, <<>>)) @@
    ("e" :> Animal(1, 100, FALSE, FALSE, <<"a">>))

FileApexRedHerring ==
    ("a" :> Animal(1, 100, FALSE, FALSE, <<"b">>)) @@
    ("b" :> Animal(2, 100, FALSE, FALSE, <<"c">>)) @@
    ("c" :> Animal(3, 100, TRUE, FALSE, <<"b">>))

JsonFiles ==
    {FileExample, FileTwoApex, FileRedHerrings, FileThreeLevels, FileFlat,
     FilePreInfected, FileGap, FileTwoMiddle, FileApexRedHerring}

\* Everything a user may type or click on: the names of the roster, a name
\* that is in no roster, and the skip entry of the line-mode menus.
Inputs(an) == DOMAIN an \cup {"zz", "skip"}

Range(s) == {s[i] : i \in DOMAIN s}

SeqMax(S) == IF S = {} THEN 0 ELSE CHOOSE m \in S : \A x \in S : x <= m

\* Mutant: the loader passes over the red herrings.
ApexLevel_skipsRedHerrings(file) ==
    SeqMax({0} \cup {file[n].Level : n \in {m \in DOMAIN file : ~file[m].RedHerring}})

\* max starts at 0 and is raised by every animal the file holds.
ApexLevel(file) == SeqMax({0} \cup {file[n].Level : n \in DOMAIN file})

\* The graphical and the level-adjacency loaders build the roster map by name
\* and keep every field of the file's records.
LoadAnimalsFromJSON(file) ==
    [n \in DOMAIN file |->
        Animal(file[n].Level, file[n].InfectionRate, file[n].RedHerring,
               file[n].Infected, file[n].Contacts)]

\* The Animal of the contact-graph programs has no RedHerring field: decoding
\* drops it, and no host of that program is ever known as a red herring.
LoadAnimalsContact(file) ==
    [n \in DOMAIN file |-> [file[n] EXCEPT !.RedHerring = FALSE]]

Sources(v) ==
    IF v = "CG" THEN JsonFiles \cup {LoadYellowstoneAnimals} ELSE JsonFiles

Load(v, file) ==
    IF v = "CG" THEN LoadAnimalsContact(file) ELSE LoadAnimalsFromJSON(file)

ZeroStats ==
    [Attempts |-> 0, SameLevelInfections |-> 0, NextLevelInfections |-> 0]

NoCommand ==
    [cmd |-> "None", target |-> NoName, draw |-> {}, outcome |-> "None",
     player |-> NoName, by |-> NoName]

Command(c, t, d, o, p, b) ==
    [cmd |-> c, target |-> t, draw |-> d, outcome |-> o, player |-> p, by |-> b]

NoScreen(kind) == [kind |-> kind, player |-> NoName, targets |-> {}]

-----------------------------------------------------------------------------
\* The resolver.

\* chance := target.InfectionRate * virus.Strength, in ten-thousandths.
chance(target) == target.InfectionRate * Strength

\* Mutant: the comparison lets a draw equal to the chance through.
drawSucceeds_orEqual(r, target) == r * 100 <= chance(target)

\* rand.Float64() < chance, with the draw r in hundredths.
drawSucceeds(r, target) == r * 100 < chance(target)

\* Mutant: a failed attempt cures every host.
attemptInfectionCG_failureCures(target, r, an) ==
    IF drawSucceeds(r, an[target])
    THEN [success |-> TRUE, animals |-> [an EXCEPT ![target].Infected = TRUE]]
    ELSE [success |-> FALSE,
          animals |-> [h \in DOMAIN an |-> [an[h] EXCEPT !.Infected = FALSE]]]

\* attemptInfection of the contact-graph programs: no tracker, the source host
\* is only printed.
attemptInfectionCG(target, r, an) ==
    IF drawSucceeds(r, an[target])
    THEN [success |-> TRUE, animals |-> [an EXCEPT ![target].Infected = TRUE]]
    ELSE [success |-> FALSE, animals |-> an]

\* Mutant: a successful attempt is not counted as an attempt.
attemptInfection_forgetsAttempt(player, target, r, an, st) ==
    IF drawSucceeds(r, an[target])
    THEN [success |-> TRUE,
          animals |-> [an EXCEPT ![target].Infected = TRUE],
          stats |->
              IF an[target].Level = an[player].Level
              THEN [st EXCEPT !.SameLevelInfections = @ + 1]
              ELSE [st EXCEPT !.NextLevelInfections = @ + 1]]
    ELSE [success |-> FALSE, animals |-> an,
          stats |-> [st EXCEPT !.Attempts = @ + 1]]

\* Mutant: a failed attempt marks the target all the same.
attemptInfection_failureInfects(player, target, r, an, st) ==
    LET counted == [st EXCEPT !.Attempts = @ + 1]
    IN  IF drawSucceeds(r, an[target])
        THEN [success |-> TRUE,
              animals |-> [an EXCEPT ![target].Infected = TRUE],
              stats |->
                  IF an[target].Level = an[player].Level
                  THEN [counted EXCEPT !.SameLevelInfections = @ + 1]
                  ELSE IF an[target].Level = an[player].Level + 1
                       THEN [counted EXCEPT !.NextLevelInfections = @ + 1]
                       ELSE counted]
        ELSE [success |-> FALSE,
              animals |-> [an EXCEPT ![target].Infected = TRUE],
              stats |-> counted]

\* attemptInfection of the graphical program with dialogs.
attemptInfection(player, target, r, an, st) ==
    LET counted == [st EXCEPT !.Attempts = @ + 1]
    IN  IF drawSucceeds(r, an[target])
        THEN [success |-> TRUE,
              animals |-> [an EXCEPT ![target].Infected = TRUE],
              stats |->
                  IF an[target].Level = an[player].Level
                  THEN [counted EXCEPT !.SameLevelInfections = @ + 1]
                  ELSE IF an[target].Level = an[player].Level + 1
                       THEN [counted EXCEPT !.NextLevelInfections = @ + 1]
                       ELSE counted]
        ELSE [success |-> FALSE, animals |-> an, stats |-> counted]

\* Mutant: only a successful attempt is counted.
attemptInfectionLL_countsSuccessOnly(player, target, r, an, st, apex) ==
    IF drawSucceeds(r, an[target])
    THEN [success |-> TRUE,
          animals |-> [an EXCEPT ![target].Infected = TRUE],
          stats |->
              IF an[target].Level = an[player].Level
              THEN [st EXCEPT !.Attempts = @ + 1, !.SameLevelInfections = @ + 1]
              ELSE [st EXCEPT !.Attempts = @ + 1, !.NextLevelInfections = @ + 1],
          player |-> IF an[target].Level > an[player].Level
                     THEN target ELSE player,
          won |-> an[target].Level > an[player].Level
                  /\ an[target].Level = apex]
    ELSE [success |-> FALSE, animals |-> an, stats |-> st,
          player |-> player, won |-> FALSE]

\* attemptInfection of the line-mode level-adjacency program: it also returns
\* the host the player now inhabits and whether the apex was reached.
attemptInfectionLL(player, target, r, an, st, apex) ==
    LET counted == [st EXCEPT !.Attempts = @ + 1]
    IN  IF drawSucceeds(r, an[target])
        THEN [success |-> TRUE,
              animals |-> [an EXCEPT ![target].Infected = TRUE],
              stats |->
                  IF an[target].Level = an[player].Level
                  THEN [counted EXCEPT !.SameLevelInfections = @ + 1]
                  ELSE IF an[target].Level = an[player].Level + 1
                       THEN [counted EXCEPT !.NextLevelInfections = @ + 1]
                       ELSE counted,
              player |-> IF an[target].Level > an[player].Level
                         THEN target ELSE player,
              won |-> an[target].Level > an[player].Level
                      /\ an[target].Level = apex]
        ELSE [success |-> FALSE, animals |-> an, stats |-> counted,
              player |-> player, won |-> FALSE]

\* Mutant: the handler forgets to count the attempt.
countAttempt_forgotten(st) == st

\* The INFECT handler of the animated graphical program counts the attempt
\* before it looks at the target.
countAttempt(st) == [st EXCEPT !.Attempts = @ + 1]

\* Mutant: every infection is counted as a same-level one.
infectStats_alwaysSame(player, target, an, st) ==
    [st EXCEPT !.SameLevelInfections = @ + 1]

\* The same handler counts the infection itself: next-level for a higher
\* target, same-level for anything else.
infectStats(player, target, an, st) ==
    IF an[target].Level > an[player].Level
    THEN [st EXCEPT !.NextLevelInfections = @ + 1]
    ELSE [st EXCEPT !.SameLevelInfections = @ + 1]

-----------------------------------------------------------------------------
\* Eligibility.

\* Mutant: any host at or above the player's level passes the level test.
sameOrNextLevel_anyHigher(player, a) == a.Level >= player.Level

\* The level test of the level-adjacency programs.
sameOrNextLevel(player, a) ==
    a.Level = player.Level \/ a.Level = player.Level + 1

\* Mutant: red herrings are left among the valid targets.
getValidTargets_keepsRedHerrings(player, an) ==
    {n \in DOMAIN an : ~an[n].Infected /\ sameOrNextLevel(an[player], an[n])}

\* getValidTargets of the graphical program with dialogs.
getValidTargets(player, an) ==
    {n \in DOMAIN an :
        /\ ~(an[n].Infected \/ an[n].RedHerring)
        /\ sameOrNextLevel(an[player], an[n])}

\* getValidTargets of the line-mode level-adjacency program: red herrings stay
\* in the list.
getValidTargetsLine(player, an) ==
    {n \in DOMAIN an : ~an[n].Infected /\ sameOrNextLevel(an[player], an[n])}

\* The cards of the animated game screen.
gameScreenTargets(player, an) ==
    {n \in DOMAIN an :
        ~(an[n].Infected
          \/ (an[n].Level # an[player].Level /\ an[n].Level # an[player].Level + 1))}

\* Mutant: contacts that are already infected stay in the menu.
chooseTargetList_keepsInfected(player, an) ==
    LET known(c) == c \in DOMAIN an
    IN  SelectSeq(an[player].Contacts, known)

\* validTargets of chooseTarget in the contact-graph programs, in contacts order.
chooseTargetList(player, an) ==
    LET known(c) == c \in DOMAIN an /\ ~an[c].Infected
    IN  SelectSeq(an[player].Contacts, known)

\* Mutant: every host of the roster is offered as patient zero.
levelOne_anyLevel(an) == DOMAIN an

\* The hosts offered as patient zero by the level-adjacency programs.
levelOne(an) == {n \in DOMAIN an : an[n].Level = 1}

-----------------------------------------------------------------------------
\* Scoring.

\* Mutant: the score is not clamped at 0.
calculateScore_noClamp(st, elapsedMs) ==
    1000 + st.NextLevelInfections * 200 - st.SameLevelInfections * 100
         - st.Attempts * 10 - (elapsedMs \div 1000) \div 2

\* Mutant: a next-level infection is worth 100 points.
calculateScore_smallBonus(st, elapsedMs) ==
    LET score == 1000 + st.NextLevelInfections * 100
                      - st.SameLevelInfections * 100
                      - st.Attempts * 10
                      - (elapsedMs \div 1000) \div 2
    IN  IF score < 0 THEN 0 ELSE score

\* calculateScore(stats, elapsed): int(elapsed.Seconds()) drops the fraction.
calculateScore(st, elapsedMs) ==
    LET seconds == elapsedMs \div 1000
        score == 1000 + st.NextLevelInfections * 200
                      - st.SameLevelInfections * 100
                      - st.Attempts * 10
                      - seconds \div 2
    IN  IF score < 0 THEN 0 ELSE score

\* calculateScore(state) of the animated program reads the clock itself.
calculateScoreLive(st, elapsedMs) ==
    LET secs == elapsedMs \div 1000
        score == 1000 + (st.NextLevelInfections * 200)
                      - (st.SameLevelInfections * 100)
                      - (st.Attempts * 10) - secs \div 2
    IN  IF score < 0 THEN 0 ELSE score

-----------------------------------------------------------------------------
\* Screens.

createGameScreen(an, pname) ==
    [kind |-> "game", player |-> pname, targets |-> getValidTargets(pname, an)]

createGameScreenLive(an, pname) ==
    [kind |-> "game", player |-> pname, targets |-> gameScreenTargets(pname, an)]

promptLine(an, pname) ==
    [kind |-> "game", player |-> pname, targets |-> getValidTargetsLine(pname, an)]

promptContact(an, pname) ==
    [kind |-> "game", player |-> pname,
     targets |-> Range(chooseTargetList(pname, an))]

Callback(kind, target) == [kind |-> kind, target |-> target]

WinPending == \E i \in DOMAIN pending : pending[i].kind = "win"

\* The phase of the game loop as the display shows it.  In the program with
\* dialogs the win is decided in the handler and shown by a delayed callback.
Phase ==
    IF screen.kind = "win" \/ WinPending THEN "Won"
    ELSE IF screen.kind \in {"intro", "select"} THEN "SelectingStarter"
    ELSE IF screen.kind = "done" THEN "Exhausted"
    ELSE "Playing"

-----------------------------------------------------------------------------
Init ==
    \E v \in Variants : \E file \in Sources(v) :
        /\ variant = v
        /\ source = file
        /\ animals = Load(v, file)
        /\ maxLevel = IF v = "CG" THEN 0 ELSE ApexLevel(file)
        /\ playerName = NoName
        /\ currentDay = IF v = "G2" THEN 0 ELSE 1
        /\ stats = ZeroStats
        /\ screen = NoScreen(IF v \in {"G1", "G2"} THEN "intro" ELSE "select")
        /\ pending = <<>>
        /\ timerLive = 0
        /\ scoreText = <<>>
        /\ last = NoCommand

-----------------------------------------------------------------------------
\* The graphical program with dialogs.

\* "Begin Infection" on the intro screen of either graphical program.
BeginInfection ==
    /\ variant \in {"G1", "G2"}
    /\ screen.kind = "intro"
    /\ screen' = NoScreen("select")
    /\ UNCHANGED <<variant, source, animals, playerName, maxLevel, currentDay,
                   stats, pending, timerLive, scoreText, last>>

\* A card of the selection screen: level-1 hosts only; a red herring carries a
\* button that only explains itself.
ChooseG1(n) ==
    /\ variant = "G1"
    /\ screen.kind = "select"
    /\ n \in levelOne(animals)
    /\ IF animals[n].RedHerring
       THEN /\ last' = Command("ChooseStarter", n, {}, "InvalidStarter",
                               playerName, NoName)
            /\ UNCHANGED <<animals, playerName, screen>>
       ELSE /\ playerName' = n
            /\ animals' = [animals EXCEPT ![n].Infected = TRUE]
            /\ screen' = createGameScreen(animals', n)
            /\ last' = Command("ChooseStarter", n, {}, "Accepted",
                               playerName, NoName)
    /\ UNCHANGED <<variant, source, maxLevel, currentDay, stats, pending,
                   timerLive, scoreText>>

\* An "Infect" button of the game screen.  The handler works on the player
\* captured when the screen was built and leaves the screen in place: the next
\* screen is set half a second later by a timer.
InfectG1(t, r) ==
    /\ variant = "G1"
    /\ screen.kind = "game"
    /\ t \in screen.targets
    /\ stats.Attempts < MaxAttempts
    /\ currentDay < MaxDay
    /\ Len(pending) < MaxPending
    /\ LET p == screen.player
           res == attemptInfection(p, t, r, animals, stats)
           evolved == res.success /\ animals[t].Level > animals[p].Level
           won == evolved /\ animals[t].Level = maxLevel
       IN  /\ animals' = res.animals
           /\ stats' = res.stats
           /\ playerName' = IF evolved THEN t ELSE playerName
           /\ currentDay' = IF won THEN currentDay ELSE currentDay + 1
           /\ pending' = Append(pending,
                  Callback(IF won THEN "win" ELSE "rebuild", NoName))
           /\ last' = Command("ChooseTarget", t, {r},
                  IF res.success THEN "Success" ELSE "Failure", playerName, p)
    /\ UNCHANGED <<variant, source, maxLevel, screen, timerLive, scoreText>>

\* The "Red Herring" button of a game-screen card: a dialog, nothing else.
RedHerringButtonG1(t) ==
    /\ variant = "G1"
    /\ screen.kind = "game"
    /\ t \in DOMAIN animals
    /\ t \notin screen.targets
    /\ ~animals[t].Infected
    /\ animals[t].RedHerring
    /\ last' = Command("ChooseTarget", t, {}, "InvalidTarget", playerName,
                       screen.player)
    /\ UNCHANGED <<variant, source, animals, playerName, maxLevel, currentDay,
                   stats, screen, pending, timerLive, scoreText>>

\* The timer set after an ordinary attempt fires: the game screen is rebuilt
\* from the state as it is now.
RebuildG1 ==
    /\ variant = "G1"
    /\ pending # <<>>
    /\ Head(pending).kind = "rebuild"
    /\ pending' = Tail(pending)
    /\ screen' = createGameScreen(animals, playerName)
    /\ UNCHANGED <<variant, source, animals, playerName, maxLevel, currentDay,
                   stats, timerLive, scoreText, last>>

\* The timer set after the winning attempt fires: createWinScreen computes the
\* final score and replaces the content.
ShowWinG1(e) ==
    /\ variant = "G1"
    /\ pending # <<>>
    /\ Head(pending).kind = "win"
    /\ pending' = Tail(pending)
    /\ screen' = NoScreen("win")
    /\ scoreText' = <<e, calculateScore(stats, e)>>
    /\ UNCHANGED <<variant, source, animals, playerName, maxLevel, currentDay,
                   stats, timerLive, last>>

\* Mutant: "Play Again" loads the roster but keeps the tracker.
PlayAgainG1_keepsTracker ==
    /\ variant = "G1"
    /\ screen.kind = "win"
    /\ pending = <<>>
    /\ animals' = LoadAnimalsFromJSON(source)
    /\ maxLevel' = ApexLevel(source)
    /\ playerName' = NoName
    /\ currentDay' = 1
    /\ screen' = NoScreen("intro")
    /\ scoreText' = <<>>
    /\ last' = Command("PlayAgain", NoName, {}, "Accepted", playerName, NoName)
    /\ UNCHANGED <<variant, source, stats, pending, timerLive>>

\* "Play Again" on the win screen: a new GameState from the roster source.
\* (Explored once the timers of the finished run have fired.)
PlayAgainG1 ==
    /\ variant = "G1"
    /\ screen.kind = "win"
    /\ pending = <<>>
    /\ animals' = LoadAnimalsFromJSON(source)
    /\ maxLevel' = ApexLevel(source)
    /\ playerName' = NoName
    /\ currentDay' = 1
    /\ stats' = ZeroStats
    /\ screen' = NoScreen("intro")
    /\ scoreText' = <<>>
    /\ last' = Command("PlayAgain", NoName, {}, "Accepted", playerName, NoName)
    /\ UNCHANGED <<variant, source, pending, timerLive>>

-----------------------------------------------------------------------------
\* The animated graphical program.

\* Mutant: the "Choose" button does not turn a red herring down.
ChooseG2_acceptsRedHerring(n, e) ==
    /\ variant = "G2"
    /\ screen.kind = "select"
    /\ n \in levelOne(animals)
    /\ playerName' = n
    /\ animals' = [animals EXCEPT ![n].Infected = TRUE]
    /\ screen' = createGameScreenLive(animals', n)
    /\ timerLive' = timerLive + 1
    /\ scoreText' = <<e, calculateScoreLive(stats, e)>>
    /\ last' = Command("ChooseStarter", n, {}, "Accepted", playerName, NoName)
    /\ UNCHANGED <<variant, source, maxLevel, currentDay, stats, pending>>

\* A "Choose" button of the starter screen; createGameScreen starts the
\* polling goroutine and shows a first score.
ChooseG2(n, e) ==
    /\ variant = "G2"
    /\ screen.kind = "select"
    /\ n \in levelOne(animals)
    /\ IF animals[n].RedHerring
       THEN /\ last' = Command("ChooseStarter", n, {}, "InvalidStarter",
                               playerName, NoName)
            /\ UNCHANGED <<animals, playerName, screen, timerLive, scoreText>>
       ELSE /\ playerName' = n
            /\ animals' = [animals EXCEPT ![n].Infected = TRUE]
            /\ screen' = createGameScreenLive(animals', n)
            /\ timerLive' = timerLive + 1
            /\ scoreText' = <<e, calculateScoreLive(stats, e)>>
            /\ last' = Command("ChooseStarter", n, {}, "Accepted",
                               playerName, NoName)
    /\ UNCHANGED <<variant, source, maxLevel, currentDay, stats, pending>>

\* An "INFECT" button.  Attempts is counted first; a red herring is explained
\* and nothing is drawn; a success replaces the screen by the animation, whose
\* goroutine runs the rest later.
InfectG2(t, r) ==
    /\ variant = "G2"
    /\ screen.kind = "game"
    /\ t \in screen.targets
    /\ stats.Attempts < MaxAttempts
    /\ currentDay < MaxDay
    /\ LET p == screen.player
           counted == countAttempt(stats)
       IN  IF animals[t].RedHerring
           THEN /\ stats' = counted
                /\ last' = Command("ChooseTarget", t, {}, "Blocked",
                                   playerName, p)
                /\ UNCHANGED <<animals, currentDay, screen, pending>>
           ELSE IF drawSucceeds(r, animals[t])
           THEN /\ animals' = [animals EXCEPT ![t].Infected = TRUE]
                /\ currentDay' = currentDay + 1
                /\ stats' = infectStats(p, t, animals, counted)
                /\ screen' = NoScreen("anim")
                /\ pending' = Append(pending, Callback("after", t))
                /\ last' = Command("ChooseTarget", t, {r}, "Success",
                                   playerName, p)
           ELSE /\ stats' = counted
                /\ last' = Command("ChooseTarget", t, {r}, "Failure",
                                   playerName, p)
                /\ UNCHANGED <<animals, currentDay, screen, pending>>
    /\ UNCHANGED <<variant, source, playerName, maxLevel, timerLive, scoreText>>

\* The callback the animation runs when it ends.
AfterAnimationG2(e) ==
    /\ variant = "G2"
    /\ pending # <<>>
    /\ Head(pending).kind = "after"
    /\ LET t == Head(pending).target
       IN  /\ playerName' = t
           /\ screen' = IF animals[t].Level = maxLevel
                        THEN NoScreen("win")
                        ELSE createGameScreenLive(animals, t)
    /\ pending' = Tail(pending)
    /\ scoreText' = <<e, calculateScoreLive(stats, e)>>
    /\ UNCHANGED <<variant, source, animals, maxLevel, currentDay, stats,
                   timerLive, last>>

\* Mutant: the polling goroutine also advances the day counter.
PollG2_advancesDay(e) ==
    /\ variant = "G2"
    /\ timerLive > 0
    /\ currentDay < MaxDay
    /\ currentDay' = currentDay + 1
    /\ scoreText' = <<e, calculateScoreLive(stats, e)>>
    /\ UNCHANGED <<variant, source, animals, playerName, maxLevel, stats,
                   screen, pending, timerLive, last>>

\* One round of the polling goroutine: the score is recomputed for display.
PollG2(e) ==
    /\ variant = "G2"
    /\ timerLive > 0
    /\ scoreText' = <<e, calculateScoreLive(stats, e)>>
    /\ UNCHANGED <<variant, source, animals, playerName, maxLevel, currentDay,
                   stats, screen, pending, timerLive, last>>

-----------------------------------------------------------------------------
\* The line-mode level-adjacency program.

\* One answer to askStarterAnimal: an entry of the level-1 list that is no red
\* herring is returned and main marks it infected; anything else is asked again.
askStarterAnimalLL(input) ==
    /\ variant = "LL"
    /\ screen.kind = "select"
    /\ IF input \in levelOne(animals) /\ ~animals[input].RedHerring
       THEN /\ playerName' = input
            /\ animals' = [animals EXCEPT ![input].Infected = TRUE]
            /\ screen' = promptLine(animals', input)
            /\ last' = Command("ChooseStarter", input, {}, "Accepted",
                               playerName, NoName)
       ELSE /\ last' = Command("ChooseStarter", input, {}, "InvalidStarter",
                               playerName, NoName)
            /\ UNCHANGED <<animals, playerName, screen>>
    /\ UNCHANGED <<variant, source, maxLevel, currentDay, stats, pending,
                   timerLive, scoreText>>

\* The end of one pass of main's loop: day++ and, past the ceiling, the final
\* score of a run that reached no apex.
nextDayLL(an, pname, day) ==
    IF day + 1 > LLCeiling THEN NoScreen("done") ELSE promptLine(an, pname)

\* One answer to chooseTarget while the list is not empty, and what main does
\* with the target: skip, a red herring (explained, asked again), an attempt,
\* or an answer that is no entry of the menu (asked again).
chooseTargetLL(input, r, e) ==
    /\ variant = "LL"
    /\ screen.kind = "game"
    /\ currentDay < MaxDay
    /\ stats.Attempts < MaxAttempts
    /\ LET valid == getValidTargetsLine(playerName, animals)
       IN  /\ valid # {}
           /\ IF input = "skip"
              THEN /\ currentDay' = currentDay + 1
                   /\ screen' = nextDayLL(animals, playerName, currentDay)
                   /\ scoreText' = IF screen'.kind = "done"
                                   THEN <<e, calculateScore(stats, e)>>
                                   ELSE scoreText
                   /\ last' = Command("SkipTurn", NoName, {}, "Skipped",
                                      playerName, playerName)
                   /\ UNCHANGED <<animals, playerName, stats>>
              ELSE IF input \in valid /\ animals[input].RedHerring
              THEN /\ last' = Command("ChooseTarget", input, {}, "Blocked",
                                      playerName, playerName)
                   /\ UNCHANGED <<animals, playerName, stats, currentDay,
                                  screen, scoreText>>
              ELSE IF input \in valid
              THEN LET res == attemptInfectionLL(playerName, input, r, animals,
                                                 stats, maxLevel)
                   IN  /\ animals' = res.animals
                       /\ stats' = res.stats
                       /\ playerName' = res.player
                       /\ last' = Command("ChooseTarget", input, {r},
                              IF res.success THEN "Success" ELSE "Failure",
                              playerName, playerName)
                       /\ IF res.won
                          THEN /\ screen' = NoScreen("win")
                               /\ scoreText' = <<e, calculateScore(res.stats, e)>>
                               /\ UNCHANGED currentDay
                          ELSE /\ currentDay' = currentDay + 1
                               /\ screen' = nextDayLL(res.animals, res.player,
                                                      currentDay)
                               /\ scoreText' =
                                      IF screen'.kind = "done"
                                      THEN <<e, calculateScore(res.stats, e)>>
                                      ELSE scoreText
              ELSE /\ last' = Command("ChooseTarget", input, {}, "InvalidTarget",
                                      playerName, playerName)
                   /\ UNCHANGED <<animals, playerName, stats, currentDay,
                                  screen, scoreText>>
    /\ UNCHANGED <<variant, source, maxLevel, pending, timerLive>>

\* chooseTarget with an empty list returns at once: the day is skipped.  The
\* program passes days up to its ceiling; cap is the day the model stops at.
skipDayLL(e, cap) ==
    /\ variant = "LL"
    /\ screen.kind = "game"
    /\ currentDay < cap
    /\ getValidTargetsLine(playerName, animals) = {}
    /\ currentDay' = currentDay + 1
    /\ screen' = nextDayLL(animals, playerName, currentDay)
    /\ scoreText' = IF screen'.kind = "done"
                    THEN <<e, calculateScore(stats, e)>> ELSE scoreText
    /\ last' = Command("SkipTurn", NoName, {}, "AutoSkipped", playerName,
                       playerName)
    /\ UNCHANGED <<variant, source, animals, playerName, maxLevel, stats,
                   pending, timerLive>>

autoSkipLL(e) == skipDayLL(e, MaxDay)

\* The same with no cap of the model: the loop runs to the program's ceiling.
autoSkipToCeilingLL(e) == skipDayLL(e, LLCeiling + 1)

-----------------------------------------------------------------------------
\* The line-mode contact-graph programs.

\* Mutant: taking the starter also wears its infection rate down.
askStarterAnimalCG_weakensStarter(input) ==
    /\ variant = "CG"
    /\ screen.kind = "select"
    /\ IF input \in DOMAIN animals
       THEN /\ playerName' = input
            /\ animals' = [animals EXCEPT ![input].Infected = TRUE,
                                          ![input].InfectionRate = 0]
            /\ screen' = promptContact(animals', input)
            /\ last' = Command("ChooseStarter", input, {}, "Accepted",
                               playerName, NoName)
       ELSE /\ last' = Command("ChooseStarter", input, {}, "InvalidStarter",
                               playerName, NoName)
            /\ UNCHANGED <<animals, playerName, screen>>
    /\ UNCHANGED <<variant, source, maxLevel, currentDay, stats, pending,
                   timerLive, scoreText>>

\* One answer to askStarterAnimal: any name of the roster is accepted.
askStarterAnimalCG(input) ==
    /\ variant = "CG"
    /\ screen.kind = "select"
    /\ IF input \in DOMAIN animals
       THEN /\ playerName' = input
            /\ animals' = [animals EXCEPT ![input].Infected = TRUE]
            /\ screen' = promptContact(animals', input)
            /\ last' = Command("ChooseStarter", input, {}, "Accepted",
                               playerName, NoName)
       ELSE /\ last' = Command("ChooseStarter", input, {}, "InvalidStarter",
                               playerName, NoName)
            /\ UNCHANGED <<animals, playerName, screen>>
    /\ UNCHANGED <<variant, source, maxLevel, currentDay, stats, pending,
                   timerLive, scoreText>>

nextTurnCG_sevenTurns(an, pname, turn) ==
    IF turn > CGCeiling THEN NoScreen("done") ELSE promptContact(an, pname)

\* The end of one pass of main's loop: turn++, six turns in all.
nextTurnCG(an, pname, turn) ==
    IF turn + 1 > CGCeiling THEN NoScreen("done") ELSE promptContact(an, pname)

\* One answer to chooseTarget and what main does with the target.  The player
\* stays the starter for the whole run: attemptInfection's result is dropped.
chooseTargetCG(input, r) ==
    /\ variant = "CG"
    /\ screen.kind = "game"
    /\ LET valid == chooseTargetList(playerName, animals)
       IN  IF input \in Range(valid)
           THEN LET res == attemptInfectionCG(input, r, animals)
                IN  /\ animals' = res.animals
                    /\ currentDay' = currentDay + 1
                    /\ screen' = nextTurnCG(res.animals, playerName, currentDay)
                    /\ last' = Command("ChooseTarget", input, {r},
                           IF res.success THEN "Success" ELSE "Failure",
                           playerName, playerName)
           ELSE IF input = "skip"
           THEN /\ currentDay' = currentDay + 1
                /\ screen' = nextTurnCG(animals, playerName, currentDay)
                /\ last' = Command("SkipTurn", NoName, {}, "Skipped",
                                   playerName, playerName)
                /\ UNCHANGED animals
           ELSE /\ last' = Command("ChooseTarget", input, {}, "InvalidTarget",
                                   playerName, playerName)
                /\ UNCHANGED <<animals, currentDay, screen>>
    /\ UNCHANGED <<variant, source, playerName, maxLevel, stats, pending,
                   timerLive, scoreText>>

-----------------------------------------------------------------------------
Next ==
    \/ BeginInfection
    \/ \E n \in DOMAIN animals : ChooseG1(n)
    \/ \E t \in DOMAIN animals : \E r \in Draws : InfectG1(t, r)
    \/ \E t \in DOMAIN animals : RedHerringButtonG1(t)
    \/ RebuildG1
    \/ \E e \in Clock : ShowWinG1(e)
    \/ PlayAgainG1
    \/ \E n \in DOMAIN animals : \E e \in Clock : ChooseG2(n, e)
    \/ \E t \in DOMAIN animals : \E r \in Draws : InfectG2(t, r)
    \/ \E e \in Clock : AfterAnimationG2(e)
    \/ \E e \in Clock : PollG2(e)
    \/ \E input \in Inputs(animals) : askStarterAnimalLL(input)
    \/ \E input \in Inputs(animals) : \E r \in Draws : \E e \in Clock :
           chooseTargetLL(input, r, e)
    \/ \E e \in Clock : autoSkipLL(e)
    \/ \E input \in Inputs(animals) : askStarterAnimalCG(input)
    \/ \E input \in Inputs(animals) : \E r \in Draws : chooseTargetCG(input, r)

Spec == Init /\ [][Next]_vars

\* The same programs with a user who lets every delayed callback run before
\* the next click: what the program does without the races of the half-second
\* hand-over.
NextPatient == Next /\ (pending # <<>> => Len(pending') < Len(pending))

SpecPatient == Init /\ [][NextPatient]_vars

\* The line-mode programs, which have a turn ceiling, with the days of the
\* level-adjacency program passed all the way to its ceiling when the player
\* has no target left.  That loop asks for no input, so it is weakly fair.
CeilingInit == Init /\ variant \in {"LL", "CG"}

CeilingNext ==
    \/ \E input \in Inputs(animals) : askStarterAnimalLL(input)
    \/ \E input \in Inputs(animals) : \E r \in Draws : \E e \in Clock :
           chooseTargetLL(input, r, e)
    \/ \E e \in Clock : autoSkipToCeilingLL(e)
    \/ \E input \in Inputs(animals) : askStarterAnimalCG(input)
    \/ \E input \in Inputs(animals) : \E r \in Draws : chooseTargetCG(input, r)

SpecCeiling ==
    /\ CeilingInit
    /\ [][CeilingNext]_vars
    /\ WF_vars(\E e \in Clock : autoSkipToCeilingLL(e))

-----------------------------------------------------------------------------
\* The animated program with the hand-over of the score timer in its steps:
\* what AfterAnimationG2 does at once is here the callback that starts
\* createGameScreen and waits in the send on timerStop, the polling goroutine
\* that takes the signal and returns, and the rest of createGameScreen.  The
\* creator's position is the head of pending: "after" (animation running),
\* "send" (blocked in the send), "stopped" (the send has returned).

\* Mutant: createGameScreen does not signal the polling goroutine.
CallbackSkipsStopG2(e) ==
    /\ variant = "G2"
    /\ pending # <<>>
    /\ Head(pending).kind = "after"
    /\ LET t == Head(pending).target
       IN  /\ playerName' = t
           /\ IF animals[t].Level = maxLevel
              THEN /\ screen' = NoScreen("win")
                   /\ pending' = Tail(pending)
                   /\ scoreText' = <<e, calculateScoreLive(stats, e)>>
              ELSE /\ pending' = <<Callback("stopped", t)>> \o Tail(pending)
                   /\ UNCHANGED <<screen, scoreText>>
    /\ UNCHANGED <<variant, source, animals, maxLevel, currentDay, stats,
                   timerLive, last>>

\* The animation's callback: the player moves to the target; on the apex the
\* win screen is shown, else createGameScreen is entered, finds timerStop set
\* and sends on it.
CallbackSendsStopG2(e) ==
    /\ variant = "G2"
    /\ pending # <<>>
    /\ Head(pending).kind = "after"
    /\ LET t == Head(pending).target
       IN  /\ playerName' = t
           /\ IF animals[t].Level = maxLevel
              THEN /\ screen' = NoScreen("win")
                   /\ pending' = Tail(pending)
                   /\ scoreText' = <<e, calculateScoreLive(stats, e)>>
              ELSE /\ pending' = <<Callback("send", t)>> \o Tail(pending)
                   /\ UNCHANGED <<screen, scoreText>>
    /\ UNCHANGED <<variant, source, animals, maxLevel, currentDay, stats,
                   timerLive, last>>

\* The polling goroutine comes round to its select while the sender waits:
\* it receives and returns.
PollReceivesStopG2 ==
    /\ variant = "G2"
    /\ timerLive > 0
    /\ pending # <<>>
    /\ Head(pending).kind = "send"
    /\ timerLive' = timerLive - 1
    /\ pending' = <<Callback("stopped", Head(pending).target)>> \o Tail(pending)
    /\ UNCHANGED <<variant, source, animals, playerName, maxLevel, currentDay,
                   stats, screen, scoreText, last>>

\* createGameScreen after the send: a new channel, a new polling goroutine,
\* the score, the cards.
CreateAfterStopG2(e) ==
    /\ variant = "G2"
    /\ pending # <<>>
    /\ Head(pending).kind = "stopped"
    /\ timerLive' = timerLive + 1
    /\ screen' = createGameScreenLive(animals, playerName)
    /\ scoreText' = <<e, calculateScoreLive(stats, e)>>
    /\ pending' = Tail(pending)
    /\ UNCHANGED <<variant, source, animals, playerName, maxLevel, currentDay,
                   stats, last>>

TimerInit == Init /\ variant = "G2"

TimerNext ==
    \/ BeginInfection
    \/ \E n \in DOMAIN animals : \E e \in Clock : ChooseG2(n, e)
    \/ \E t \in DOMAIN animals : \E r \in Draws : InfectG2(t, r)
    \/ \E e \in Clock : PollG2(e)
    \/ \E e \in Clock : CallbackSendsStopG2(e)
    \/ PollReceivesStopG2
    \/ \E e \in Clock : CreateAfterStopG2(e)

\* The goroutines run without input: the polling loop comes round every
\* second and the creator goes on once its send has returned.
SpecTimer ==
    /\ TimerInit
    /\ [][TimerNext]_vars
    /\ WF_vars(PollReceivesStopG2)
    /\ WF_vars(\E e \in Clock : CreateAfterStopG2(e))

-----------------------------------------------------------------------------
\* A second specification for the scoring function alone: Init draws a tracker
\* and the actions apply the function to a drawn elapsed time.

TrackerValues == {0, 1, 2, 9, 60, 130}

TrackerStates ==
    {st \in [Attempts : TrackerValues, SameLevelInfections : TrackerValues,
             NextLevelInfections : TrackerValues] :
        st.SameLevelInfections + st.NextLevelInfections <= st.Attempts}

ScoreClock ==
    {0, 999, 1000, 1999, 2000, 3000, 5500, 1999000, 2000000, 2001999, 2400000}

ScoreInit ==
    /\ variant \in {"LL", "G1", "G2"}
    /\ source = FileExample
    /\ animals = LoadAnimalsFromJSON(FileExample)
    /\ maxLevel = ApexLevel(FileExample)
    /\ playerName = "B"
    /\ currentDay = 1
    /\ stats \in TrackerStates
    /\ screen = NoScreen("score")
    /\ pending = <<>>
    /\ timerLive = 0
    /\ scoreText = <<>>
    /\ last = NoCommand

ScoreFinal(e) ==
    /\ variant \in {"LL", "G1"}
    /\ scoreText' = <<e, calculateScore(stats, e)>>
    /\ UNCHANGED <<variant, source, animals, playerName, maxLevel, currentDay,
                   stats, screen, pending, timerLive, last>>

ScoreLive(e) ==
    /\ variant = "G2"
    /\ scoreText' = <<e, calculateScoreLive(stats, e)>>
    /\ UNCHANGED <<variant, source, animals, playerName, maxLevel, currentDay,
                   stats, screen, pending, timerLive, last>>

ScoreNext ==
    \/ \E e \in ScoreClock : ScoreFinal(e)
    \/ \E e \in ScoreClock : ScoreLive(e)

SpecScore == ScoreInit /\ [][ScoreNext]_vars

-----------------------------------------------------------------------------
\* Vocabulary of the properties.

\* The step is the handling of one choice of target t with draw r.
Attempted(t, r) ==
    \/ InfectG1(t, r)
    \/ InfectG2(t, r)
    \/ \E e \in Clock : chooseTargetLL(t, r, e)
    \/ chooseTargetCG(t, r)

\* The roster source holds no red herring that is already infected.
LoadedClean ==
    \A n \in DOMAIN source : source[n].RedHerring => ~source[n].Infected

\* The step starts a new run.
NewRun == screen'.kind = "intro"

AnimationPending == \E i \in DOMAIN pending : pending[i].kind = "after"

\* floor(s / 2), stated without division.
HalfOf(s) == CHOOSE k \in 0..s : 2 * k <= s /\ s < 2 * k + 2

\* The score formula of the design, for whole elapsed seconds s.
ScoreOf(st, s) ==
    LET raw == 1000 + 200 * st.NextLevelInfections
                    - 100 * st.SameLevelInfections
                    - 10 * st.Attempts - HalfOf(s)
    IN  IF raw > 0 THEN raw ELSE 0

-----------------------------------------------------------------------------
\* C1: when the roster source holds no infected red herring, no red-herring
\* host is infected in any reachable state, whatever commands and draws came.
C1_RedHerringNeverInfected ==
    LoadedClean =>
        \A n \in DOMAIN animals : animals[n].RedHerring => ~animals[n].Infected

\* A red herring was picked as target after an evolution, and is still clean.
C1_Witness ==
    /\ LoadedClean
    /\ last.cmd = "ChooseTarget"
    /\ last.outcome \in {"Blocked", "InvalidTarget"}
    /\ last.target \in DOMAIN animals
    /\ animals[last.target].RedHerring
    /\ ~animals[last.target].Infected
    /\ stats.NextLevelInfections >= 1

\* C2 (as claimed): a successful next-level infection of an apex-level host
\* puts the game in Won, and in Won no step changes a counter, an infection
\* flag, the player host or the day (only a restart leaves Won).
C2_WonIsTerminal ==
    /\ [](( /\ last.outcome = "Success"
            /\ animals[last.target].Level = maxLevel
            /\ animals[last.target].Level > animals[last.by].Level
            /\ ~AnimationPending) => Phase = "Won")
    /\ [][Phase = "Won" =>
            (NewRun \/ UNCHANGED <<animals, playerName, currentDay, stats>>)]_vars

\* C3: attempts, sameLevelInfections and nextLevelInfections never decrease
\* within a run, and sameLevelInfections + nextLevelInfections <= attempts in
\* every reachable state.
C3_CountersMonotone ==
    /\ [](stats.SameLevelInfections + stats.NextLevelInfections <= stats.Attempts)
    /\ [][NewRun \/ ( /\ stats'.Attempts >= stats.Attempts
                      /\ stats'.SameLevelInfections >= stats.SameLevelInfections
                      /\ stats'.NextLevelInfections >= stats.NextLevelInfections)]_vars

\* Both kinds of infection were counted, and a failed attempt besides.
C3_Witness ==
    /\ stats.SameLevelInfections >= 1
    /\ stats.NextLevelInfections >= 1
    /\ stats.Attempts > stats.SameLevelInfections + stats.NextLevelInfections

\* C4: for every tracker and every whole number s of elapsed seconds the score
\* is max(0, 1000 + 200*next - 100*same - 10*attempts - floor(s/2)), never
\* negative (a fraction of a second is dropped before the halving).
C4_ScoreFormula ==
    scoreText # <<>> =>
        /\ scoreText[2] = ScoreOf(stats, scoreText[1] \div 1000)
        /\ scoreText[2] >= 0

\* The clamp is at work: an odd number of whole seconds, a raw score below 0.
C4_Witness ==
    /\ scoreText # <<>>
    /\ scoreText[1] = 1999000
    /\ stats.Attempts = 9
    /\ scoreText[2] = 0

\* C5: computing the score changes no field of GameState and not the phase
\* (the once-per-second poll and the win screen), and every score shown is
\* decided by the tracker and the elapsed time alone.
C5_ScoreIsPure ==
    /\ [][(\E e \in Clock : PollG2(e) \/ ShowWinG1(e)) =>
            /\ UNCHANGED <<animals, playerName, maxLevel, currentDay, stats>>
            /\ Phase' = Phase]_vars
    /\ [][(scoreText' # scoreText /\ scoreText' # <<>>) =>
            scoreText'[2] = ScoreOf(stats', scoreText'[1] \div 1000)]_vars

\* The poll ran after counters had moved and the clock had advanced.
C5_Witness ==
    /\ variant = "G2"
    /\ screen.kind = "game"
    /\ stats.Attempts >= 2
    /\ stats.SameLevelInfections >= 1
    /\ scoreText = <<3999, 1000 - 100 * stats.SameLevelInfections
                          + 200 * stats.NextLevelInfections
                          - 10 * stats.Attempts - 1>>

\* C6: an attempt on a target that is no red herring succeeds exactly when
\* r < infectionRate * strength; a success infects the target.  With rate 0.5
\* and strength 1.0 a draw of 0.3 succeeds and a draw of 0.7 fails.
C6_DrawDecides ==
    last.outcome \in {"Success", "Failure"} =>
        LET rate == animals[last.target].InfectionRate
        IN  /\ \A r \in last.draw :
                  /\ last.outcome = "Success" <=> r * 100 < rate * Strength
                  /\ (rate = 50 /\ r = 30) => last.outcome = "Success"
                  /\ (rate = 50 /\ r = 70) => last.outcome = "Failure"
            /\ last.draw # {}
            /\ last.outcome = "Success" => animals[last.target].Infected
            /\ rate = 0 => last.outcome = "Failure"
            /\ rate >= 100 => last.outcome = "Success"

\* The example of the design: rate 0.5, strength 1.0, draw 0.3.
C6_Witness ==
    /\ last.outcome = "Success"
    /\ last.draw = {30}
    /\ animals[last.target].InfectionRate = 50
    /\ Strength = 100

\* C7 (as claimed): a successful attempt on a target of a level above the
\* player's infects the target, makes it the player host (in the animated
\* program once the animation's callback has run) and adds exactly 1 to
\* nextLevelInfections and nothing to sameLevelInfections.
C7_EvolutionMigrates ==
    /\ [][\A t \in DOMAIN animals : \A r \in Draws :
            ( /\ Attempted(t, r)
              /\ last'.outcome = "Success"
              /\ animals[t].Level > animals[playerName].Level )
            => /\ animals'[t].Infected
               /\ playerName' = t \/ Callback("after", t) \in Range(pending')
               /\ stats'.NextLevelInfections = stats.NextLevelInfections + 1
               /\ stats'.SameLevelInfections = stats.SameLevelInfections]_vars
    /\ [][\A e \in Clock : AfterAnimationG2(e) =>
            playerName' = Head(pending).target]_vars

\* C7 (amended): the same in the programs that track evolution (the
\* level-adjacency ones); in the contact-graph programs the target is infected
\* and the player host stays the starter.
C7_EvolutionMigratesWhereTracked ==
    /\ [][\A t \in DOMAIN animals : \A r \in Draws :
            ( /\ Attempted(t, r)
              /\ last'.outcome = "Success"
              /\ animals[t].Level > animals[playerName].Level )
            => /\ animals'[t].Infected
               /\ variant # "CG" =>
                    /\ playerName' = t
                       \/ Callback("after", t) \in Range(pending')
                    /\ stats'.NextLevelInfections = stats.NextLevelInfections + 1
                    /\ stats'.SameLevelInfections = stats.SameLevelInfections
               /\ variant = "CG" =>
                    /\ playerName' = playerName
                    /\ stats' = stats]_vars
    /\ [][\A e \in Clock : AfterAnimationG2(e) =>
            playerName' = Head(pending).target]_vars

\* An evolution of the animated program, its callback run.
C7_Witness ==
    /\ variant = "G2"
    /\ last.outcome = "Success"
    /\ animals[last.target].Level > animals[last.player].Level
    /\ ~AnimationPending
    /\ playerName = last.target
    /\ stats.NextLevelInfections = 1
    /\ stats.SameLevelInfections = 0

\* C8 (as claimed): a successful attempt on a target of the player's own level
\* infects the target, adds exactly 1 to sameLevelInfections and nothing to
\* nextLevelInfections, and leaves the player host as it was, also when the
\* delayed callback of the attempt has run.
C8_SameLevelKeepsPlayer ==
    /\ [][\A t \in DOMAIN animals : \A r \in Draws :
            ( /\ Attempted(t, r)
              /\ last'.outcome = "Success"
              /\ animals[t].Level = animals[playerName].Level )
            => /\ animals'[t].Infected
               /\ playerName' = playerName
               /\ variant # "CG" =>
                    /\ stats'.SameLevelInfections = stats.SameLevelInfections + 1
                    /\ stats'.NextLevelInfections = stats.NextLevelInfections]_vars
    /\ [][\A e \in Clock :
            ( /\ AfterAnimationG2(e)
              /\ animals[Head(pending).target].Level = animals[playerName].Level )
            => playerName' = playerName]_vars

RedHerringChosen(t, r) ==
    /\ InfectG2(t, r) \/ \E e \in Clock : chooseTargetLL(t, r, e)
    /\ t \in screen.targets
    /\ animals[t].RedHerring

\* Nothing but the attempts counter may move when a red herring is chosen.
BlockedFrame(t) ==
    /\ last'.outcome = "Blocked"
    /\ last'.draw = {}
    /\ ~animals'[t].Infected
    /\ animals' = animals
    /\ playerName' = playerName
    /\ stats'.SameLevelInfections = stats.SameLevelInfections
    /\ stats'.NextLevelInfections = stats.NextLevelInfections
    /\ Phase' = Phase

\* C10 (as claimed): choosing a red herring that the target list offers is
\* Blocked: attempts + 1, no draw, the host stays uninfected, and the player
\* host, the two infection counters and the phase are unchanged.
C10_BlockedCountsAttempt ==
    [][\A t \in DOMAIN animals : \A r \in Draws :
          RedHerringChosen(t, r) =>
              /\ BlockedFrame(t)
              /\ stats'.Attempts = stats.Attempts + 1]_vars

\* C10 (amended): so it is in the animated graphical program; in the line-mode
\* level-adjacency program, which lists red herrings too, the choice is
\* explained and asked again and attempts is unchanged.
C10_BlockedPerVariant ==
    [][\A t \in DOMAIN animals : \A r \in Draws :
          RedHerringChosen(t, r) =>
              /\ BlockedFrame(t)
              /\ variant = "G2" => stats'.Attempts = stats.Attempts + 1
              /\ variant = "LL" => stats'.Attempts = stats.Attempts]_vars

\* A red herring was chosen in the animated program after an evolution.
C10_Witness ==
    /\ variant = "G2"
    /\ last.outcome = "Blocked"
    /\ animals[last.target].RedHerring
    /\ ~animals[last.target].Infected
    /\ stats.Attempts = 2
    /\ stats.NextLevelInfections = 1

-----------------------------------------------------------------------------
\* Vocabulary of the eligibility properties.

\* A level-adjacency program is in its game loop with a player host.
InPlay ==
    /\ variant \in {"LL", "G1", "G2"}
    /\ Phase = "Playing"
    /\ playerName # NoName

\* What the program's own filter returns for the state as it is now.
EligibleNow ==
    IF variant = "G1" THEN getValidTargets(playerName, animals)
    ELSE IF variant = "G2" THEN gameScreenTargets(playerName, animals)
    ELSE getValidTargetsLine(playerName, animals)

\* h is at the player's level or one above.
Adjacent(h) ==
    \/ animals[h].Level = animals[playerName].Level
    \/ animals[h].Level = animals[playerName].Level + 1

\* The screen in front of the user was built from the state as it is now.
ScreenCurrent == screen.kind = "game" /\ pending = <<>>

\* C11 (as claimed): in every Playing state of a level-adjacency program a host
\* is eligible exactly when it is not infected, is no red herring and is at the
\* player's level or one above; contacts play no part.
C11_LevelAdjacencyEligible ==
    InPlay =>
        \A h \in DOMAIN animals :
            h \in EligibleNow <=>
                /\ ~animals[h].Infected
                /\ ~animals[h].RedHerring
                /\ Adjacent(h)

\* C11 (amended): so it is in the graphical program with dialogs; the animated
\* graphical program and the line-mode level-adjacency program leave red
\* herrings in the set (eligible exactly when not infected and at the player's
\* level or one above).  A game screen with no callback outstanding offers
\* exactly that set.
C11_EligiblePerVariant ==
    InPlay =>
        /\ \A h \in DOMAIN animals :
              h \in EligibleNow <=>
                  /\ ~animals[h].Infected
                  /\ variant = "G1" => ~animals[h].RedHerring
                  /\ Adjacent(h)
        /\ ScreenCurrent => screen.targets = EligibleNow

\* The dialog program offers a host while a red herring among the player's
\* contacts, uninfected and at an adjacent level, is left out.
C11_Witness ==
    /\ InPlay
    /\ variant = "G1"
    /\ ScreenCurrent
    /\ screen.targets # {}
    /\ \E h \in Range(animals[playerName].Contacts) \cap DOMAIN animals :
          /\ animals[h].RedHerring
          /\ ~animals[h].Infected
          /\ Adjacent(h)
          /\ h \notin screen.targets
    /\ stats.Attempts >= 1

\* The player's contacts that name an uninfected host of the roster, in the
\* order of the contacts list.
OpenContacts ==
    LET c == animals[playerName].Contacts
        keep == {i \in DOMAIN c :
                    c[i] \in DOMAIN animals /\ ~animals[c[i]].Infected}
        nth(k) == CHOOSE i \in keep : Cardinality({j \in keep : j <= i}) = k
    IN  [k \in 1..Cardinality(keep) |-> c[nth(k)]]

\* C12: in the contact-graph programs the menu of every turn is the player's
\* contacts, in contacts order, without the infected ones (and without names
\* that are in no roster); hosts the roster source marks as red herrings stay
\* in; only an entry of that menu is ever resolved.
C12_ContactGraphEligible ==
    /\ []((variant = "CG" /\ screen.kind = "game") =>
            /\ chooseTargetList(playerName, animals) = OpenContacts
            /\ screen.targets = Range(OpenContacts)
            /\ \A h \in screen.targets :
                  h \in Range(animals[playerName].Contacts))
    /\ [][\A t \in Inputs(animals) : \A r \in Draws :
            (chooseTargetCG(t, r) /\ last'.outcome \in {"Success", "Failure"})
            => /\ t \in Range(OpenContacts)
               /\ ~animals[t].Infected]_vars

\* The menu after one infection: the infected contact is gone, and a host the
\* roster source marks as a red herring leads what is left, in contacts order.
C12_Witness ==
    /\ variant = "CG"
    /\ screen.kind = "game"
    /\ playerName = "a"
    /\ animals["b"].Infected
    /\ chooseTargetList(playerName, animals) = <<"c", "d">>
    /\ source["c"].RedHerring

-----------------------------------------------------------------------------
\* Vocabulary of the starter properties.

\* The step is the handling of one ChooseStarter(n) by a level-adjacency
\* program.
StarterStep(n) ==
    \/ ChooseG1(n)
    \/ \E e \in Clock : ChooseG2(n, e)
    \/ askStarterAnimalLL(n)

\* n names a host that may be patient zero.
GoodStarter(n) ==
    /\ n \in DOMAIN animals
    /\ animals[n].Level = 1
    /\ ~animals[n].RedHerring

\* C13: in the level-adjacency programs ChooseStarter on a host that is not at
\* level 1 or is a red herring is rejected as InvalidStarter and changes
\* nothing; an accepted ChooseStarter marks the host infected, makes it the
\* player host and starts Playing; so the first player host of a run is a
\* level-1 host that is no red herring.
C13_StarterRule ==
    /\ [][\A n \in Inputs(animals) :
            (StarterStep(n) /\ ~GoodStarter(n))
            => /\ last'.outcome = "InvalidStarter"
               /\ UNCHANGED <<animals, playerName, maxLevel, currentDay, stats,
                              screen, pending, timerLive, scoreText>>]_vars
    /\ [][\A n \in Inputs(animals) :
            (StarterStep(n) /\ GoodStarter(n))
            => /\ last'.outcome = "Accepted"
               /\ animals' = [animals EXCEPT ![n].Infected = TRUE]
               /\ playerName' = n
               /\ Phase = "SelectingStarter"
               /\ Phase' = "Playing"]_vars
    /\ []((variant # "CG" /\ last.cmd = "ChooseStarter"
                          /\ last.outcome = "Accepted")
            => /\ playerName = last.target
               /\ animals[playerName].Level = 1
               /\ ~animals[playerName].RedHerring
               /\ animals[playerName].Infected)
    /\ []((variant # "CG" /\ playerName = NoName) => Phase = "SelectingStarter")

\* The line-mode program has just turned down a host that is no red herring
\* but sits above level 1.
C13_Witness ==
    /\ variant = "LL"
    /\ last.cmd = "ChooseStarter"
    /\ last.outcome = "InvalidStarter"
    /\ last.target \in DOMAIN animals
    /\ animals[last.target].Level = 2
    /\ ~animals[last.target].RedHerring
    /\ playerName = NoName

\* C14: GameState names at most one player host; once the game is in Playing,
\* Won or Exhausted there is one, it is a host of the roster, it is infected
\* and it is no red herring; a game screen with no callback outstanding was
\* built for that very host.
C14_OnePlayerHost ==
    /\ Cardinality({h \in DOMAIN animals : h = playerName}) <= 1
    /\ playerName # NoName =>
          /\ playerName \in DOMAIN animals
          /\ animals[playerName].Infected
          /\ ~animals[playerName].RedHerring
    /\ Phase \in {"Playing", "Won", "Exhausted"} => playerName # NoName
    /\ ScreenCurrent => screen.player = playerName

\* The animated program after an evolution, its game screen offering a red
\* herring to the new player host.
C14_Witness ==
    /\ variant = "G2"
    /\ ScreenCurrent
    /\ stats.NextLevelInfections = 1
    /\ playerName = last.target
    /\ animals[playerName].Level = 2
    /\ \E h \in screen.targets : animals[h].RedHerring

-----------------------------------------------------------------------------
\* The example run of the design: roster A (level 1, rate 1.0) and B (level 2,
\* rate 1.0, the apex), strength 1.0, starting on A.

\* The first command of the example: ChooseTarget(B) from A with draw r.
ExampleStep(r) ==
    /\ variant # "CG"
    /\ source = FileExample
    /\ playerName = "A"
    /\ stats = ZeroStats
    /\ Attempted("B", r)

\* C15: in the example run ChooseTarget(B) with any draw below 1.0 is a Success
\* with nextLevelInfections = 1 and attempts = 1, the player host becomes B and
\* the phase Won (in the animated program when the animation's callback runs),
\* and the score of that run at 0 s elapsed is 1190.
C15_ExampleRun ==
    /\ [][\A r \in Draws :
            ExampleStep(r) =>
                /\ last'.outcome = "Success"
                /\ animals'["B"].Infected
                /\ stats' = [Attempts |-> 1, SameLevelInfections |-> 0,
                             NextLevelInfections |-> 1]
                /\ IF variant = "G2"
                   THEN pending' = <<Callback("after", "B")>>
                   ELSE playerName' = "B" /\ Phase' = "Won"]_vars
    /\ [][\A e \in Clock :
            (source = FileExample /\ AfterAnimationG2(e))
            => playerName' = "B" /\ Phase' = "Won"]_vars
    /\ []((/\ variant # "CG"
            /\ source = FileExample
            /\ Phase = "Won"
            /\ stats.Attempts = 1
            /\ scoreText # <<>>
            /\ scoreText[1] \div 1000 = 0) => scoreText[2] = 1190)

\* The win screen of the example run shows 1190.
C15_Witness ==
    /\ variant = "G1"
    /\ source = FileExample
    /\ screen.kind = "win"
    /\ playerName = "B"
    /\ last.outcome = "Success"
    /\ last.draw = {99}
    /\ stats.Attempts = 1
    /\ stats.NextLevelInfections = 1
    /\ scoreText = <<0, 1190>>

-----------------------------------------------------------------------------
\* Vocabulary of the resolver properties.

\* The targets the program would offer for the state as it is now.
OfferedNow ==
    IF variant = "CG" THEN Range(chooseTargetList(playerName, animals))
    ELSE EligibleNow

\* The engine's data after the program's handler has resolved an attempt on t
\* with draw r for the player host p: roster, tracker, player host, day.
AfterAttempt(p, t, r) ==
    IF variant = "CG"
    THEN <<attemptInfectionCG(t, r, animals).animals, stats, playerName,
           currentDay + 1>>
    ELSE IF variant = "LL"
    THEN LET res == attemptInfectionLL(p, t, r, animals, stats, maxLevel)
         IN  <<res.animals, res.stats, res.player,
               IF res.won THEN currentDay ELSE currentDay + 1>>
    ELSE IF variant = "G1"
    THEN LET res == attemptInfection(p, t, r, animals, stats)
             evolved == res.success /\ animals[t].Level > animals[p].Level
             won == evolved /\ animals[t].Level = maxLevel
         IN  <<res.animals, res.stats, IF evolved THEN t ELSE playerName,
               IF won THEN currentDay ELSE currentDay + 1>>
    ELSE IF drawSucceeds(r, animals[t])
    THEN <<[animals EXCEPT ![t].Infected = TRUE],
           infectStats(p, t, animals, countAttempt(stats)), playerName,
           currentDay + 1>>
    ELSE <<animals, countAttempt(stats), playerName, currentDay>>

\* C16 (as claimed): the outcome of an attempt and the GameState it leaves are
\* decided by the GameState, the command and the draw alone: whatever else is
\* true of the program when a target on offer is chosen, the attempt ends as
\* it does when the handler runs for the player host GameState names.
C16_AttemptDetermined ==
    [][\A t \in DOMAIN animals : \A r \in Draws :
          ( /\ Attempted(t, r)
            /\ last'.outcome \in {"Success", "Failure"}
            /\ Phase = "Playing"
            /\ t \in OfferedNow )
          => /\ last'.outcome = "Success" <=>
                    r * 100 < animals[t].InfectionRate * Strength
             /\ <<animals', stats', playerName', currentDay'>>
                    = AfterAttempt(playerName, t, r)]_vars

-----------------------------------------------------------------------------
\* Vocabulary of the phase properties.

\* The last command was a successful infection of an apex-level host from a
\* player host below it.
LastWasApexEvolution ==
    /\ last.cmd = "ChooseTarget"
    /\ last.outcome = "Success"
    /\ animals[last.target].Level = maxLevel
    /\ animals[last.target].Level > animals[last.player].Level

\* C17 (as claimed): in the level-adjacency programs Won is entered only through
\* a successful next-level infection of an apex-level host; after any other
\* command taken in Playing (an evolution below the apex, a same-level success,
\* a failure, a blocked attempt, a skip) the phase is still Playing, and stays
\* so when the delayed callback of that command has run.
C17_WonOnlyByApexEvolution ==
    /\ [][(variant # "CG" /\ Phase # "Won" /\ Phase' = "Won")
            => LastWasApexEvolution']_vars
    /\ [][(variant # "CG" /\ Phase = "Playing" /\ last' # last
                          /\ ~LastWasApexEvolution')
            => Phase' = "Playing"]_vars

\* C18 (as claimed): whichever program runs, no attempt is resolved on a target
\* whose level is below the level of the current player host.
C18_NoLowerTarget ==
    [][\A t \in DOMAIN animals : \A r \in Draws :
          (Attempted(t, r) /\ last'.outcome \in {"Success", "Failure"})
          => animals[t].Level >= animals[playerName].Level]_vars

\* C19 (as claimed, the command that wins the game set aside): in Playing every
\* accepted command (an attempt resolved as Success or Failure, a skipped turn)
\* advances the day counter by exactly one, and no command but ChooseTarget
\* makes a draw or moves the tracker.
C19_DayAdvances ==
    /\ [][( /\ Phase = "Playing"
            /\ last' # last
            /\ last'.outcome \in {"Success", "Failure", "Skipped"}
            /\ Phase' # "Won" )
            => currentDay' = currentDay + 1]_vars
    /\ [][(last' # last /\ last'.cmd # "ChooseTarget")
            => last'.draw = {} /\ stats' = stats]_vars

\* C20 (as claimed): an attempt takes effect at once: in no reachable state
\* (each of them open to the score poll and to the user) has an evolution been
\* counted and its target infected while the player host is still the old one,
\* or, the target being at the apex, while the game is not yet Won.
C20_AttemptAtomic ==
    ( /\ variant # "CG"
      /\ last.cmd = "ChooseTarget"
      /\ last.outcome = "Success"
      /\ animals[last.target].Level > animals[last.player].Level )
    => /\ animals[last.target].Infected
       /\ playerName = last.target
       /\ animals[last.target].Level = maxLevel => Phase = "Won"

-----------------------------------------------------------------------------
\* Vocabulary of the concurrency properties.

\* The step is one round of the score-polling goroutine.
PollStep == \E e \in Clock : PollG2(e)

\* The step is run by a goroutine other than the one that handles the
\* user's commands: the animation's goroutine calling back, or a timer.
OffThreadStep ==
    \/ \E e \in Clock : AfterAnimationG2(e)
    \/ RebuildG1
    \/ \E e \in Clock : ShowWinG1(e)

\* C21 (as claimed): a round of the score poll changes nothing of GameState and
\* never falls between the first and the last write of a command (the last
\* write of an attempt of the animated program is made by the animation's
\* callback), and GameState is written by the goroutine of the command
\* handlers only.
C21_PollNeverOverlaps ==
    /\ [][PollStep => UNCHANGED gameState]_vars
    /\ [][PollStep => ~AnimationPending]_vars
    /\ [][OffThreadStep => UNCHANGED gameState]_vars

\* C22 (as claimed): whenever an attempt is resolved, the player the handler
\* works with (for the level test of the target and for telling a same-level
\* from a next-level infection) is the host GameState names as player host,
\* also when the command comes in before the game screen has been rebuilt.
C22_ResolvedAgainstCurrentPlayer ==
    [][\A t \in DOMAIN animals : \A r \in Draws :
          (Attempted(t, r) /\ last'.outcome \in {"Success", "Failure"})
          => /\ last'.by = playerName
             /\ variant # "CG" => Adjacent(t)]_vars

\* The step is the handling of a choice of target: an entry typed at a menu,
\* or a click on a button of a card.
ChooseTargetStep(t, r) == Attempted(t, r) \/ RedHerringButtonG1(t)

\* C23 (as claimed): in Playing, a choice of target that is not in the set the
\* program would offer for the state as it is (a host outside it, or an input
\* that names nothing) is turned down: GameState and the phase are as before
\* and no draw is made.
C23_InvalidChoiceRejected ==
    [][\A t \in Inputs(animals) \ {"skip"} : \A r \in Draws :
          ( /\ ChooseTargetStep(t, r)
            /\ Phase = "Playing"
            /\ t \notin OfferedNow )
          => /\ UNCHANGED gameState
             /\ Phase' = Phase
             /\ last'.draw = {}
             /\ last'.outcome = "InvalidTarget"]_vars

\* The step passes the turn: the day goes up by one and no attempt is counted.
SkipStep ==
    /\ Next
    /\ currentDay' = currentDay + 1
    /\ stats'.Attempts = stats.Attempts

\* Nothing is outstanding and the program offers no target for the state as
\* it is.
NothingToChoose ==
    /\ Phase = "Playing"
    /\ pending = <<>>
    /\ playerName # NoName
    /\ OfferedNow = {}

\* C24 (as claimed): a Playing state with an empty eligible set is never a
\* dead end: the turn can be passed, the day going up by one with no attempt
\* counted.
C24_EmptySetSkips == (NothingToChoose /\ currentDay < MaxDay) => ENABLED SkipStep

-----------------------------------------------------------------------------
\* Vocabulary of the ceiling properties.

\* The number of turns the program plays before it gives up.
Ceiling == IF variant = "CG" THEN CGCeiling ELSE LLCeiling

\* The step is a turn that counts: an attempt that was resolved, or a pass.
AcceptedTurn ==
    last'.outcome \in {"Success", "Failure", "Skipped", "AutoSkipped"}

\* The run is over: no step of the program follows.
RunOver == [][~(Phase \in {"Won", "Exhausted"})]_vars

\* Every turn that counts and does not win moves the day on by one, and
\* nothing else moves it.
TurnsMoveTheDay ==
    variant \in {"LL", "CG"} =>
        /\ (AcceptedTurn /\ screen'.kind # "win") => currentDay' = currentDay + 1
        /\ ~AcceptedTurn => currentDay' = currentDay

\* The run is in Exhausted exactly when the day has passed the ceiling.
CeilingCounts ==
    /\ [](variant \in {"LL", "CG"} =>
            /\ currentDay <= Ceiling + 1
            /\ (Phase = "Exhausted") <=> (currentDay = Ceiling + 1))
    /\ [][TurnsMoveTheDay]_vars

\* With no target left the level-adjacency program runs to its ceiling unasked.
SkipsToCeiling ==
    (variant = "LL" /\ NothingToChoose) ~> (Phase = "Exhausted")

\* C25 (as claimed): in the programs with a ceiling a run ends in Won or, after
\* exactly the ceiling number of accepted turns, in Exhausted, where no further
\* command is accepted and the score is at hand.
C25_CeilingEndsRun ==
    /\ CeilingCounts
    /\ RunOver
    /\ SkipsToCeiling
    /\ [](Phase = "Exhausted" => scoreText # <<>>)

\* C25 (as the programs have it): the same, the score being computed at the
\* ceiling by the level-adjacency program; the contact-graph programs keep no
\* tracker and have no score.
C25_CeilingEndsRunScoreWhereTracked ==
    /\ CeilingCounts
    /\ RunOver
    /\ SkipsToCeiling
    /\ [](Phase = "Exhausted" =>
            IF variant = "LL"
            THEN \E e \in Clock : scoreText = <<e, calculateScore(stats, e)>>
            ELSE scoreText = <<>>)

C25_Witness ==
    /\ variant = "LL"
    /\ Phase = "Exhausted"
    /\ currentDay = LLCeiling + 1
    /\ last.outcome = "AutoSkipped"
    /\ stats.Attempts > 0
    /\ scoreText # <<>>

-----------------------------------------------------------------------------
\* Vocabulary of the roster properties.

\* Every host infected before the step is infected after it.
InfectedKept == \A h \in DOMAIN animals : animals[h].Infected => animals'[h].Infected

\* C26: within a run a host that is infected stays infected, whatever commands
\* follow; only the start of a new run loads the roster afresh.
C26_InfectedMonotone == [][NewRun \/ InfectedKept]_vars

\* Two hosts are infected and a later attempt has failed.
C26_Witness ==
    /\ Cardinality({h \in DOMAIN animals : animals[h].Infected}) >= 2
    /\ last.outcome = "Failure"
    /\ last.cmd = "ChooseTarget"

\* The roster holds the hosts of its source with their level, infection rate,
\* red-herring mark and contacts.
RosterAsLoaded ==
    /\ DOMAIN animals = DOMAIN source
    /\ \A h \in DOMAIN animals :
          /\ animals[h].Level = source[h].Level
          /\ animals[h].InfectionRate = source[h].InfectionRate
          /\ animals[h].RedHerring = Load(variant, source)[h].RedHerring
          /\ animals[h].Contacts = source[h].Contacts

\* The hosts whose infection mark the step changes.
Flipped == {h \in DOMAIN animals : animals'[h].Infected # animals[h].Infected}

\* C27: a command changes the roster at most by setting isInfected on one
\* host; names, levels, rates, red-herring marks, contacts and the apex level
\* are in every state as at load time.
C27_RosterFrame ==
    /\ []RosterAsLoaded
    /\ [][maxLevel' = maxLevel]_vars
    /\ [][NewRun \/ (Cardinality(Flipped) <= 1 /\ InfectedKept)]_vars

\* Starter and two more hosts are infected after a successful attempt.
C27_Witness ==
    /\ Cardinality({h \in DOMAIN animals : animals[h].Infected /\ ~source[h].Infected}) >= 3
    /\ last.outcome = "Success"

-----------------------------------------------------------------------------
\* Vocabulary of the failure properties.

\* The step resolves an attempt of a Playing state on t with draw r as Failure.
FailedAttempt(t, r) ==
    /\ Phase = "Playing"
    /\ Attempted(t, r)
    /\ last'.outcome = "Failure"

\* What a failure leaves alone: the infection marks, the player host and the
\* two infection counters.
FailureFrame ==
    /\ animals' = animals
    /\ playerName' = playerName
    /\ stats'.SameLevelInfections = stats.SameLevelInfections
    /\ stats'.NextLevelInfections = stats.NextLevelInfections

\* C28 (as claimed): a Failure changes nothing but attempts, which goes up by
\* one, and the day counter; the phase stays Playing.
C28_FailureChangesLittle ==
    [][\A t \in DOMAIN animals : \A r \in Draws :
          FailedAttempt(t, r) =>
              /\ FailureFrame
              /\ stats'.Attempts = stats.Attempts + 1
              /\ Phase' = "Playing"]_vars

\* C28 (amended): so it is where attempts are tracked (the level-adjacency
\* programs); a contact-graph program has no tracker, and a failure on the last
\* turn under a ceiling ends the run in Exhausted.
C28_FailureChangesLittlePerVariant ==
    [][\A t \in DOMAIN animals : \A r \in Draws :
          FailedAttempt(t, r) =>
              /\ FailureFrame
              /\ variant # "CG" => stats'.Attempts = stats.Attempts + 1
              /\ variant = "CG" => stats' = stats
              /\ currentDay' \in {currentDay, currentDay + 1}
              /\ IF variant \in {"LL", "CG"} /\ currentDay = Ceiling
                 THEN Phase' = "Exhausted"
                 ELSE Phase' = "Playing"]_vars

\* A failure after an evolution, the day moved on.
C28_Witness ==
    /\ last.outcome = "Failure"
    /\ stats.NextLevelInfections = 1
    /\ stats.Attempts = 2
    /\ playerName # last.target
    /\ ~animals[last.target].Infected
    /\ Phase = "Playing"

-----------------------------------------------------------------------------
\* Vocabulary of the apex properties.

\* The highest level of the roster, red herrings included.
TopLevel == CHOOSE m \in {animals[h].Level : h \in DOMAIN animals} :
                \A h \in DOMAIN animals : animals[h].Level <= m

\* The target whose level a step's win check reads: the one of the command,
\* in the animated program the one the ending animation was started for.
WinCheckTarget == IF variant = "G2" THEN Head(pending).target ELSE last'.target

\* The step decides that the game is won.
WinDecided == Phase # "Won" /\ Phase' = "Won"

\* The step is where a program checks for the win after an evolution: the
\* handler of the attempt, in the animated program the animation's callback.
WinChecked ==
    \/ /\ variant \in {"LL", "G1"}
       /\ \E t \in DOMAIN animals : \E r \in Draws : Attempted(t, r)
       /\ last'.outcome = "Success"
       /\ animals[last'.target].Level > animals[last'.by].Level
       /\ Phase # "Won"
    \/ \E e \in Clock : AfterAnimationG2(e)

\* C29: in the programs that have a win check the apex level is the highest
\* level of the loaded roster, red herrings included; it is set at load and
\* never afterwards, and a win is decided exactly by comparing the target's
\* level with it.
C29_ApexIsTopLevel ==
    /\ [](variant # "CG" => maxLevel = TopLevel)
    /\ [][maxLevel' = maxLevel /\ TopLevel' = TopLevel]_vars
    /\ [][WinDecided => animals[WinCheckTarget].Level = maxLevel]_vars
    /\ [][WinChecked =>
            (Phase' = "Won" <=> animals[WinCheckTarget].Level = maxLevel)]_vars

\* The only host of the top level is a red herring: the player has evolved
\* to the level below and the game goes on.
C29_Witness ==
    /\ variant # "CG"
    /\ \A h \in DOMAIN animals : animals[h].Level = maxLevel => animals[h].RedHerring
    /\ last.outcome = "Success"
    /\ playerName = last.target
    /\ animals[playerName].Level = maxLevel - 1
    /\ animals[last.player].Level < animals[playerName].Level
    /\ Phase = "Playing"

-----------------------------------------------------------------------------
-----------------------------------------------------------------------------
\* Vocabulary of the properties that tie the tracker to the roster.

\* A level-adjacency program has a player host and the game is on or won.
PlayingOrWon ==
    /\ variant \in {"LL", "G1", "G2"}
    /\ Phase \in {"Playing", "Won"}
    /\ playerName # NoName

\* C31 (as claimed): in every Playing or Won state of a level-adjacency
\* program, none of whose animations is still running, the player host's level
\* is 1 + nextLevelInfections.
C31_LevelIsEvolutionsPlusOne ==
    (PlayingOrWon /\ ~AnimationPending)
        => animals[playerName].Level = 1 + stats.NextLevelInfections

\* The hosts that carry the infection.
InfectedHosts == {h \in DOMAIN animals : animals[h].Infected}

\* The roster source holds every host as healthy.
LoadedHealthy == \A n \in DOMAIN source : ~source[n].Infected

\* C32 (as claimed): in every Playing or Won state of a program with a tracker,
\* started from a roster of healthy hosts, sameLevelInfections +
\* nextLevelInfections is the number of infected hosts less the starter: no
\* infection is counted twice.
C32_InfectionsCountedOnce ==
    (PlayingOrWon /\ LoadedHealthy)
        => stats.SameLevelInfections + stats.NextLevelInfections
               = Cardinality(InfectedHosts) - 1

\* The level of the player host, 0 while there is none.
PlayerLevel == IF playerName = NoName THEN 0 ELSE animals[playerName].Level

\* No infected host is of a level above the player host's.
NoneAbovePlayer == \A h \in InfectedHosts : animals[h].Level <= PlayerLevel

\* Within a run the player host's level does not go down.
LevelNeverDrops ==
    [][(variant # "CG" /\ ~NewRun) => PlayerLevel' >= PlayerLevel]_vars

\* C33 (as claimed): in every state of a level-adjacency program with a player
\* host, started from a roster of healthy hosts, no infected host is of a level
\* above the player host's, and the player host's level never goes down.
C33_PlayerOnTopAlways ==
    /\ []((PlayingOrWon /\ LoadedHealthy) => NoneAbovePlayer)
    /\ LevelNeverDrops

-----------------------------------------------------------------------------
\* Vocabulary of the dead-end properties.

\* Every level from 1 to the apex has a host that is no red herring and can be
\* infected with a positive chance.
EveryLevelOpen ==
    \A l \in 1..maxLevel :
        \E h \in DOMAIN animals :
            /\ animals[h].Level = l
            /\ ~animals[h].RedHerring
            /\ chance(animals[h]) > 0

\* C34 (as claimed): under level adjacency, with every level open and a roster
\* loaded healthy, every Playing state (no animation running) offers a host of
\* the level above the player's, so that the win stays within reach.
C34_NextLevelOffered ==
    (InPlay /\ EveryLevelOpen /\ LoadedHealthy /\ ~AnimationPending)
        => \E h \in EligibleNow : animals[h].Level = PlayerLevel + 1

\* C35 (as claimed): the phase is Won whenever the player host is of the apex
\* level: no Playing state (no animation running) has the player host at the
\* highest level of the roster, whatever the roster and the starter.
C35_WonAtApex ==
    ~( /\ Phase = "Playing"
       /\ playerName # NoName
       /\ ~AnimationPending
       /\ PlayerLevel = TopLevel )

-----------------------------------------------------------------------------
\* Vocabulary of the timer hand-over.

\* createGameScreen is blocked in its send on timerStop.
Sending == pending # <<>> /\ Head(pending).kind = "send"

\* C36: each time a game screen is created after the first, the stop signal is
\* received in the end (the creator does not block for ever), the polling
\* goroutine that received it has ended when the send returns, and at every
\* moment at most one polling goroutine is live: exactly one behind every game
\* screen.
C36_TimerHandOff ==
    /\ [](timerLive <= 1)
    /\ [](screen.kind = "game" => timerLive = 1)
    /\ Sending ~> (screen.kind = "game")
    /\ [][(Sending /\ ~Sending') => (timerLive = 1 /\ timerLive' = 0)]_vars

\* The second hand-over is done: the third game screen, one polling goroutine.
C36_Witness ==
    /\ variant = "G2"
    /\ screen.kind = "game"
    /\ pending = <<>>
    /\ timerLive = 1
    /\ currentDay = 2
    /\ playerName = last.target
    /\ last.outcome = "Success"

====
